---- MODULE Spec2Model ----
(***************************************************************************)
(* Model of src/EuropeanClaimCRR.py: arbitrage pricing of European claims  *)
(* (call, put, up-and-in call) in the Cox-Ross-Rubinstein binomial model.  *)
(*                                                                         *)
(* The program is a set of pure methods.  A state holds the arguments of   *)
(* one parameter set and, per method, what a call with these arguments     *)
(* produced: nothing yet, a returned value, or the exception it raised.    *)
(*                                                                         *)
(* Python floats are modelled as exact rationals <<numerator, denominator>>*)
(* in lowest terms with a positive denominator.  The arguments are drawn   *)
(* from dyadic values (which floats represent exactly), so every power,    *)
(* product and comparison on the price lattice is the one the program      *)
(* evaluates; quotients by 3 or 5 differ from the floats by rounding only. *)
(***************************************************************************)
EXTENDS Integers, Sequences, FiniteSets

VARIABLES
    interestRate,   \* argument interestRate
    up,             \* argument up
    down,           \* argument down
    maturity,       \* argument maturity
    startPrice,     \* argument startPrice
    strike,         \* argument strike
    barriere,       \* argument barriere
    assetPrices,    \* argument assetPrices of UICallOption.payoff / checkBarriere
    measure,        \* outcome of EuropeanClaimCRR.calcMartingalMeasure
    callPrice,      \* outcome of CallOption.calcPrice
    putPrice,       \* outcome of PutOption.calcPrice
    limit,          \* outcome of UICallOption.barrierLimits (with the maturity passed)
    sum1,           \* outcome of UICallOption.calcPriceSum1
    sum2,           \* outcome of UICallOption.calcPriceSum2
    uiPrice,        \* outcome of UICallOption.calcPrice
    callPay,        \* outcome of CallOption.payoff on the last asset price
    putPay,         \* outcome of PutOption.payoff on the last asset price
    uiPay,          \* outcome of UICallOption.payoff
    check           \* outcome of UICallOption.checkBarriere

args == <<interestRate, up, down, maturity, startPrice, strike, barriere, assetPrices>>
priceOutcomes == <<measure, callPrice, putPrice, limit, sum1, sum2, uiPrice>>
payoffOutcomes == <<callPay, putPay, uiPay, check>>
vars == <<args, priceOutcomes, payoffOutcomes>>

----------------------------------------------------------------------------
(* Bounds of the model. *)

\* largest maturity (number of time steps) of a parameter set
MaxMaturity == 4

\* largest numerator i of the rates i/4 of the markets the measure is computed for
MaxQuarter == 4

----------------------------------------------------------------------------
(* Exact rational arithmetic standing for the float operations. *)

Abs(i) == IF i < 0 THEN -i ELSE i

RECURSIVE GCD(_, _)
GCD(a, b) == IF b = 0 THEN a ELSE GCD(b, a % b)

\* n/d in lowest terms, d # 0
Rat(n, d) ==
    LET s == IF d < 0 THEN -1 ELSE 1
        g == GCD(Abs(n), Abs(d))
    IN  <<(s * n) \div g, (s * d) \div g>>

Num(i) == <<i, 1>>

Add(x, y) ==
    LET g == GCD(x[2], y[2])
    IN  Rat(x[1] * (y[2] \div g) + y[1] * (x[2] \div g), (x[2] \div g) * y[2])

Neg(x) == <<-x[1], x[2]>>

Sub(x, y) == Add(x, Neg(y))

Mul(x, y) ==
    LET g1 == GCD(Abs(x[1]), y[2])
        g2 == GCD(Abs(y[1]), x[2])
    IN  <<(x[1] \div g1) * (y[1] \div g2), (x[2] \div g2) * (y[2] \div g1)>>

\* 1/x, x # 0
Inv(x) == IF x[1] > 0 THEN <<x[2], x[1]>> ELSE <<-x[2], -x[1]>>

Div(x, y) == Mul(x, Inv(y))

Less(x, y) == x[1] * y[2] < y[1] * x[2]

Leq(x, y) == x[1] * y[2] <= y[1] * x[2]

\* Python's max(x, 0)
Max0(x) == IF x[1] > 0 THEN x ELSE Num(0)

\* n ** e for integers n and e >= 0
IntPow(n, e) ==
    IF e = 0 THEN 1
    ELSE IF n >= 0 THEN n ^ e
    ELSE (IF e % 2 = 0 THEN 1 ELSE -1) * ((-n) ^ e)

\* x ** e for e >= 0 (x is in lowest terms, and so is the result)
PowNat(x, e) == <<IntPow(x[1], e), IntPow(x[2], e)>>

\* x ** e for an integer-valued exponent e (negative exponents included), x # 0
Pow(x, e) == IF e >= 0 THEN PowNat(x, e) ELSE Inv(PowNat(x, -e))

RECURSIVE SumSeq(_)
\* the accumulation  acc = 0.0; for t in terms: acc = acc + t
SumSeq(terms) ==
    IF terms = <<>> THEN Num(0)
    ELSE Add(SumSeq(SubSeq(terms, 1, Len(terms) - 1)), terms[Len(terms)])

\* faulty variant: the range includes its end, 0, 1, ..., n
range_inclusive(n) == [i \in 1..(n + 1) |-> i - 1]

\* Python's range(n) as the sequence 0, 1, ..., n-1
range(n) == [i \in 1..n |-> i - 1]

RECURSIVE Factorial(_)
Factorial(n) == IF n = 0 THEN 1 ELSE n * Factorial(n - 1)

\* scipy.stats.binom.pmf(k, n, p) = C(n,k) p^k (1-p)^(n-k), 0 <= k <= n
binom_pmf(k, n, p) ==
    Mul(Num(Factorial(n) \div (Factorial(k) * Factorial(n - k))),
        Mul(PowNat(p, k), PowNat(Sub(Num(1), p), n - k)))

----------------------------------------------------------------------------
(* Outcomes of a call. *)

\* the method has not been called with the current arguments
Idle == [st |-> "idle", val |-> <<>>]

\* the method returned v
Ret(v) == [st |-> "returned", val |-> <<v>>]

\* the method ended in exception e
Raise(e) == [st |-> e, val |-> <<>>]

Returned(o) == o.st = "returned"

Raised(o) == o.st \notin {"idle", "returned"}

Val(o) == o.val[1]

----------------------------------------------------------------------------
(* EuropeanClaimCRR *)

\* faulty variant: the numerator measures the distance to up instead of down
calcMartingalMeasure_swapped(r, u, d) ==
    LET probabilityUp == Div(Sub(u, r), Sub(u, d))
        probabilityDown == Sub(Num(1), probabilityUp)
    IN  <<probabilityUp, probabilityDown>>

calcMartingalMeasure(r, u, d) ==
    LET probabilityUp == Div(Sub(r, d), Sub(u, d))
        probabilityDown == Sub(Num(1), probabilityUp)
    IN  <<probabilityUp, probabilityDown>>

----------------------------------------------------------------------------
(* CallOption *)

CallOption_payoff(assetPrice, k) == Max0(Sub(assetPrice, k))

\* the terminal price of the plain pricers after numberUps ups and m - numberUps downs
scenarioPrice(upReturn, downReturn, m, s, numberUps) ==
    LET numberDowns == m - numberUps
        scenarioReturn == Mul(Pow(upReturn, numberUps), Pow(downReturn, numberDowns))
    IN  Mul(s, scenarioReturn)

CallOption_calcPrice(r, u, d, m, s, k) ==
    LET upReturn == Add(Num(1), u)
        downReturn == Add(Num(1), d)
        probUp == calcMartingalMeasure(r, u, d)[1]
        term(numberUps) ==
            LET pay == CallOption_payoff(scenarioPrice(upReturn, downReturn, m, s, numberUps), k)
            IN  Mul(binom_pmf(numberUps, m, probUp), pay)
        expectedValue == SumSeq([i \in DOMAIN range(m) |-> term(range(m)[i])])
    IN  Div(expectedValue, Pow(Add(Num(1), r), m))

----------------------------------------------------------------------------
(* PutOption *)

\* faulty variant: the call's difference copied into the put
PutOption_payoff_asCall(assetPrice, k) == Max0(Sub(assetPrice, k))

PutOption_payoff(assetPrice, k) == Max0(Sub(k, assetPrice))

PutOption_calcPrice(r, u, d, m, s, k) ==
    LET upReturn == Add(Num(1), u)
        downReturn == Add(Num(1), d)
        probUp == calcMartingalMeasure(r, u, d)[1]
        term(numberUps) ==
            LET pay == PutOption_payoff(scenarioPrice(upReturn, downReturn, m, s, numberUps), k)
            IN  Mul(binom_pmf(numberUps, m, probUp), pay)
        expectedValue == SumSeq([i \in DOMAIN range(m) |-> term(range(m)[i])])
    IN  Div(expectedValue, Pow(Add(Num(1), r), m))

----------------------------------------------------------------------------
(* UICallOption *)

\* list[i] with a 0-based index 0 <= i: the element, or IndexError past the end
ListGet(list, i) == IF i < Len(list) THEN Ret(list[i + 1]) ELSE Raise("IndexError")

RECURSIVE checkBarriere_from(_, _, _)
\* the loop of checkBarriere from index time on: True at the first price >= barriere
checkBarriere_from(prices, b, time) ==
    IF time >= Len(prices) THEN FALSE
    ELSE IF Leq(b, prices[time + 1]) THEN TRUE
    ELSE checkBarriere_from(prices, b, time + 1)

checkBarriere(prices, b) == checkBarriere_from(prices, b, 0)

\* faulty variant: reads the last element, index len(assetPrices) - 1
UICallOption_payoff_lastIndex(prices, k, b) ==
    IF checkBarriere(prices, b)
    THEN LET last == ListGet(prices, Len(prices) - 1)
         IN  IF Returned(last) THEN Ret(Max0(Sub(Val(last), k))) ELSE last
    ELSE Ret(Num(0))

UICallOption_payoff(prices, k, b) ==
    IF checkBarriere(prices, b)
    THEN LET last == ListGet(prices, Len(prices))
         IN  IF Returned(last) THEN Ret(Max0(Sub(Val(last), k))) ELSE last
    ELSE Ret(Num(0))

RECURSIVE barrierLimits_from(_, _, _, _, _)
\* the loop of barrierLimits from numberUps on: the first match is returned; when the
\* range is exhausted `return limit` reads a local that was never bound
barrierLimits_from(upReturn, m, s, b, numberUps) ==
    IF numberUps >= m THEN Raise("UnboundLocalError")
    ELSE IF b = Mul(s, Pow(upReturn, numberUps)) THEN Ret(numberUps)
    ELSE barrierLimits_from(upReturn, m, s, b, numberUps + 1)

\* faulty variant: no break, the last match of the range is returned
barrierLimits_lastMatch(u, m, s, b) ==
    LET matches == {numberUps \in 0..(m - 1) : b = Mul(s, Pow(Add(Num(1), u), numberUps))}
    IN  IF matches = {} THEN Raise("UnboundLocalError")
        ELSE Ret(CHOOSE numberUps \in matches : \A other \in matches : other <= numberUps)

\* faulty variant: limit is initialised to 0 before the loop
barrierLimits_defaulted(u, m, s, b) ==
    LET found == barrierLimits_from(Add(Num(1), u), m, s, b, 0)
    IN  IF Returned(found) THEN found ELSE Ret(0)

barrierLimits(u, m, s, b) == barrierLimits_from(Add(Num(1), u), m, s, b, 0)

\* faulty variant: the exponent is numberUps - maturity
endPrice_single(upReturn, m, s, numberUps) == Mul(s, Pow(upReturn, numberUps - m))

\* the terminal price of the barrier sums
endPrice(upReturn, m, s, numberUps) == Mul(s, Pow(upReturn, 2 * numberUps - m))

calcPriceSum1(r, u, d, m, s, k, b) ==
    LET upReturn == Add(Num(1), u)
        probUp == calcMartingalMeasure(r, u, d)[1]
        term(numberUps) ==
            LET e == endPrice(upReturn, m, s, numberUps)
            IN  IF Leq(b, e)
                THEN Mul(Max0(Sub(e, k)), binom_pmf(numberUps, m, probUp))
                ELSE Num(0)
    IN  SumSeq([i \in DOMAIN range(m) |-> term(range(m)[i])])

\* faulty variant: the reflected sum is not restricted to end prices below tempBarriere
calcPriceSum2_unrestricted(r, u, d, m, s, k, b) ==
    LET upReturn == Add(Num(1), u)
        probUp == calcMartingalMeasure(r, u, d)[1]
        lim == barrierLimits(u, m, s, b)
    IN  IF ~Returned(lim) THEN lim
        ELSE
        LET tempStrike == Mul(k, Pow(upReturn, -2 * Val(lim)))
            term(numberUps) ==
                LET e == endPrice(upReturn, m, s, numberUps)
                IN  Mul(Max0(Sub(e, tempStrike)), binom_pmf(numberUps, m, probUp))
            s2 == SumSeq([i \in DOMAIN range(m) |-> term(range(m)[i])])
        IN  Ret(Mul(Mul(Pow(Div(probUp, Sub(Num(1), probUp)), Val(lim)),
                        Pow(Div(b, s), 2)), s2))

calcPriceSum2(r, u, d, m, s, k, b) ==
    LET upReturn == Add(Num(1), u)
        probUp == calcMartingalMeasure(r, u, d)[1]
        lim == barrierLimits(u, m, s, b)
    IN  IF ~Returned(lim) THEN lim
        ELSE
        LET tempStrike == Mul(k, Pow(upReturn, -2 * Val(lim)))
            tempBarriere == Div(Mul(s, s), b)
            term(numberUps) ==
                LET e == endPrice(upReturn, m, s, numberUps)
                IN  IF Less(e, tempBarriere)
                    THEN Mul(Max0(Sub(e, tempStrike)), binom_pmf(numberUps, m, probUp))
                    ELSE Num(0)
            s2 == SumSeq([i \in DOMAIN range(m) |-> term(range(m)[i])])
        IN  Ret(Mul(Mul(Pow(Div(probUp, Sub(Num(1), probUp)), Val(lim)),
                        Pow(Div(b, s), 2)), s2))

UICallOption_calcPrice(r, u, d, m, s, k, b) ==
    LET s1 == calcPriceSum1(r, u, d, m, s, k, b)
        s2 == calcPriceSum2(r, u, d, m, s, k, b)
    IN  IF ~Returned(s2) THEN s2
        ELSE LET diskont == Pow(Add(Num(1), r), m)
             IN  Ret(Div(Add(s1, Val(s2)), diskont))

----------------------------------------------------------------------------
(* The parameter sets.  The market values are those of the driver          *)
(* (interest rates -0.25, 0.0, 0.25, up 1.0, down -0.5, start price 1,     *)
(* strike 1, barriers 2.0**i) and neighbours of them.                      *)

\* maturity of the driver's barrier, strike and interest-rate sweeps
DriverMaturity == 20

Rates == {<<-1, 4>>, Num(0), <<1, 4>>}
Ups == {Num(0), <<1, 2>>, Num(1)}
Downs == {<<-1, 2>>}
StartPrices == {Num(1), Num(2)}
Strikes == {Num(1), Num(2)}
Barriers == {<<3, 2>>, Num(2), <<9, 4>>, Num(4), Num(8)}

\* the rates i/4 above -1 (interestRate is documented as a float above -1)
Quarters == {Rat(i, 4) : i \in -3..MaxQuarter}

\* the documented argument domains: down < interestRate < up, barriere > strike
ValidArgs ==
    /\ Less(down, interestRate) /\ Less(interestRate, up)
    /\ Less(strike, barriere)

\* the asset prices at times 0..Len(moves) along a path of up (TRUE) and down (FALSE) moves
PathPrices(s, u, d, moves) ==
    [t \in 1..(Len(moves) + 1) |->
        LET ups == Cardinality({i \in 1..(t - 1) : moves[i]})
        IN  Mul(s, Mul(Pow(Add(Num(1), u), ups), Pow(Add(Num(1), d), (t - 1) - ups)))]

IdleLimit == [st |-> "idle", val |-> <<>>, maturity |-> 0]

\* the outcome o of barrierLimits called with maturity m
LimitAt(o, m) == [st |-> o.st, val |-> o.val, maturity |-> m]

AllIdle ==
    /\ measure = Idle /\ callPrice = Idle /\ putPrice = Idle /\ limit = IdleLimit
    /\ sum1 = Idle /\ sum2 = Idle /\ uiPrice = Idle
    /\ callPay = Idle /\ putPay = Idle /\ uiPay = Idle /\ check = Idle

\* pricing: one parameter set, no method called yet
Init ==
    /\ interestRate \in Rates /\ up \in Ups /\ down \in Downs
    /\ maturity \in 1..MaxMaturity
    /\ startPrice \in StartPrices /\ strike \in Strikes /\ barriere \in Barriers
    /\ ValidArgs
    /\ assetPrices = <<startPrice>>
    /\ AllIdle

\* payoffs: the driver's market at interest rate 0 and one price path of it
InitPayoff ==
    /\ interestRate = Num(0) /\ up = Num(1) /\ down = <<-1, 2>>
    /\ maturity \in 1..MaxMaturity
    /\ startPrice = Num(1) /\ strike \in Strikes /\ barriere \in Barriers
    /\ ValidArgs
    /\ \E moves \in [1..maturity -> BOOLEAN] :
          assetPrices = PathPrices(startPrice, up, down, moves)
    /\ AllIdle

\* the measure: a market on the grid of quarters, the driver's contract
InitMeasure ==
    /\ interestRate \in Quarters /\ up \in Quarters /\ down \in Quarters
    /\ maturity = DriverMaturity
    /\ startPrice = Num(1) /\ strike = Num(1) /\ barriere = Num(8)
    /\ ValidArgs
    /\ assetPrices = <<startPrice>>
    /\ AllIdle

----------------------------------------------------------------------------
(* One action per method: the call with the state's arguments. *)

Measure ==
    /\ measure = Idle
    /\ measure' = Ret(calcMartingalMeasure(interestRate, up, down))
    /\ UNCHANGED <<args, callPrice, putPrice, limit, sum1, sum2, uiPrice, payoffOutcomes>>

CallPrice ==
    /\ callPrice = Idle
    /\ callPrice' = Ret(CallOption_calcPrice(interestRate, up, down, maturity, startPrice, strike))
    /\ UNCHANGED <<args, measure, putPrice, limit, sum1, sum2, uiPrice, payoffOutcomes>>

PutPrice ==
    /\ putPrice = Idle
    /\ putPrice' = Ret(PutOption_calcPrice(interestRate, up, down, maturity, startPrice, strike))
    /\ UNCHANGED <<args, measure, callPrice, limit, sum1, sum2, uiPrice, payoffOutcomes>>

\* barrierLimits with the state's maturity or with the driver's
Limits ==
    /\ limit = IdleLimit
    /\ \E m \in {maturity, DriverMaturity} :
          limit' = LimitAt(barrierLimits(up, m, startPrice, barriere), m)
    /\ UNCHANGED <<args, measure, callPrice, putPrice, sum1, sum2, uiPrice, payoffOutcomes>>

Sum1 ==
    /\ sum1 = Idle
    /\ sum1' = Ret(calcPriceSum1(interestRate, up, down, maturity, startPrice, strike, barriere))
    /\ UNCHANGED <<args, measure, callPrice, putPrice, limit, sum2, uiPrice, payoffOutcomes>>

Sum2 ==
    /\ sum2 = Idle
    /\ sum2' = calcPriceSum2(interestRate, up, down, maturity, startPrice, strike, barriere)
    /\ UNCHANGED <<args, measure, callPrice, putPrice, limit, sum1, uiPrice, payoffOutcomes>>

UIPrice ==
    /\ uiPrice = Idle
    /\ uiPrice' = UICallOption_calcPrice(interestRate, up, down, maturity, startPrice, strike, barriere)
    /\ UNCHANGED <<args, measure, callPrice, putPrice, limit, sum1, sum2, payoffOutcomes>>

\* the terminal price of the path
LastPrice == assetPrices[Len(assetPrices)]

CallPayoff ==
    /\ callPay = Idle
    /\ callPay' = Ret(CallOption_payoff(LastPrice, strike))
    /\ UNCHANGED <<args, priceOutcomes, putPay, uiPay, check>>

PutPayoff ==
    /\ putPay = Idle
    /\ putPay' = Ret(PutOption_payoff(LastPrice, strike))
    /\ UNCHANGED <<args, priceOutcomes, callPay, uiPay, check>>

UIPayoff ==
    /\ uiPay = Idle
    /\ uiPay' = UICallOption_payoff(assetPrices, strike, barriere)
    /\ UNCHANGED <<args, priceOutcomes, callPay, putPay, check>>

CheckBarriere ==
    /\ check = Idle
    /\ check' = Ret(checkBarriere(assetPrices, barriere))
    /\ UNCHANGED <<args, priceOutcomes, callPay, putPay, uiPay>>

\* pricing of one parameter set
Next == CallPrice \/ PutPrice \/ Limits \/ Sum2 \/ UIPrice

Spec == Init /\ [][Next]_vars

\* payoffs and the barrier sums along one price path
NextPayoff == CallPayoff \/ PutPayoff \/ UIPayoff \/ CheckBarriere \/ Sum1 \/ UIPrice

SpecPayoff == InitPayoff /\ [][NextPayoff]_vars

\* the martingale measure of one market
NextMeasure == Measure

SpecMeasure == InitMeasure /\ [][NextMeasure]_vars

----------------------------------------------------------------------------
(* Properties of the martingale measure (SpecMeasure). *)

\* C4: for down < interestRate < up, calcMartingalMeasure returns [probabilityUp,
\* probabilityDown] with probabilityUp * (up - down) = interestRate - down, the two
\* entries summing to 1 and each strictly between 0 and 1.
MeasureIsProbability ==
    Returned(measure) =>
        LET probabilityUp == Val(measure)[1]
            probabilityDown == Val(measure)[2]
        IN  /\ Len(Val(measure)) = 2
            /\ Mul(probabilityUp, Sub(up, down)) = Sub(interestRate, down)
            /\ Add(probabilityUp, probabilityDown) = Num(1)
            /\ Less(Num(0), probabilityUp) /\ Less(probabilityUp, Num(1))
            /\ Less(Num(0), probabilityDown) /\ Less(probabilityDown, Num(1))

\* the measure of an asymmetric market has been computed: rate -1/4, up 1, down -1/2
MeasureComputed ==
    /\ Returned(measure)
    /\ interestRate = <<-1, 4>> /\ up = Num(1) /\ down = <<-1, 2>>
    /\ Val(measure) = <<(<<1, 6>>), (<<5, 6>>)>>

----------------------------------------------------------------------------
(* Properties of the payoffs (SpecPayoff). *)

\* C8: put-call payoff parity: CallOption.payoff(S, K) - PutOption.payoff(S, K) = S - K
\* for the terminal price S of the path and the strike K.
PayoffParity ==
    (Returned(callPay) /\ Returned(putPay)) =>
        Sub(Val(callPay), Val(putPay)) = Sub(LastPrice, strike)

\* both payoffs computed on a price below the strike, where the put pays
PayoffParityOutOfMoney ==
    /\ Returned(callPay) /\ Returned(putPay)
    /\ Less(LastPrice, strike)
    /\ Val(callPay) = Num(0) /\ Less(Num(0), Val(putPay))

\* some price of the path, time 0 to maturity, is at or above the barrier
Crossed == \E t \in 1..Len(assetPrices) : ~Less(assetPrices[t], barriere)

\* C9: UICallOption.payoff returns 0 exactly when no asset price is >= barriere (when
\* checkBarriere is false); when some price is, it indexes assetPrices one past the end
\* and ends in IndexError; UICallOption.calcPrice never ends in that error.
BarrierPayoffFault ==
    /\ Returned(check) => (Val(check) <=> Crossed)
    /\ uiPay # Idle =>
          /\ ~Crossed => uiPay = Ret(Num(0))
          /\ Crossed => uiPay = Raise("IndexError")
    /\ uiPrice.st # "IndexError"

\* payoff was called on a path that crosses the barrier and ends above the strike, and the
\* option was priced
BarrierPayoffFaultHit ==
    /\ Crossed /\ Less(strike, LastPrice)
    /\ Raised(uiPay) /\ Returned(check) /\ Returned(uiPrice)

----------------------------------------------------------------------------
(* Properties of the barrier level (Spec). *)

\* startPrice * (1 + up)^L = barriere
IsLevel(L) == barriere = Mul(startPrice, Pow(Add(Num(1), up), L))

\* some integer L in [0, m) is a level of the barrier
HasLevel(m) == \E L \in 0..(m - 1) : IsLevel(L)

\* C5: whenever some integer L in [0, maturity) has startPrice*(1+up)^L = barriere,
\* barrierLimits returns the smallest such L; with up = 1, maturity = 20, startPrice = 1
\* and barriere = 8 it returns 3.
BarrierLimitIsFirstLevel ==
    /\ (limit # IdleLimit /\ HasLevel(limit.maturity)) =>
          /\ Returned(limit)
          /\ Val(limit) \in 0..(limit.maturity - 1)
          /\ IsLevel(Val(limit))
          /\ \A L \in 0..(Val(limit) - 1) : ~IsLevel(L)
    /\ (/\ limit # IdleLimit /\ limit.maturity = DriverMaturity
        /\ up = Num(1) /\ startPrice = Num(1) /\ barriere = Num(8)) =>
          limit.val = <<3>>

\* barrierLimits(1.0, 20, 1, 8) has returned
DriverLimitFound ==
    /\ limit.maturity = DriverMaturity /\ Returned(limit)
    /\ up = Num(1) /\ startPrice = Num(1) /\ barriere = Num(8)

\* C6: when no integer L in [0, maturity) has startPrice*(1+up)^L = barriere,
\* barrierLimits ends in an error (the unbound local) and returns no level, and
\* calcPriceSum2 and UICallOption.calcPrice end in the same error and return no price.
NoLevelIsAnError ==
    /\ (limit # IdleLimit /\ ~HasLevel(limit.maturity)) =>
          limit = LimitAt(Raise("UnboundLocalError"), limit.maturity)
    /\ ~HasLevel(maturity) =>
          /\ sum2 # Idle => sum2 = Raise("UnboundLocalError")
          /\ uiPrice # Idle => uiPrice = Raise("UnboundLocalError")

\* the barrier is reached by exactly maturity ups, outside the searched range, and the
\* three methods were called
NoLevelAtMaturity ==
    /\ IsLevel(maturity) /\ ~HasLevel(maturity)
    /\ limit.maturity = maturity /\ Raised(limit) /\ Raised(sum2) /\ Raised(uiPrice)

----------------------------------------------------------------------------
(* Properties of the plain prices (Spec). *)

RECURSIVE Binomial(_, _)
\* the binomial coefficient by Pascal's rule
Binomial(n, k) ==
    IF k = 0 \/ k = n THEN 1 ELSE Binomial(n - 1, k - 1) + Binomial(n - 1, k)

\* BinomialPMF(numberUps; maturity, probabilityUp) * payoff(terminal price, strike) for the
\* call (isCall) or the put, with probabilityUp = (rate - down)/(up - down)
WeightedPayoff(numberUps, isCall) ==
    LET p == Div(Sub(interestRate, down), Sub(up, down))
        q == Div(Sub(up, interestRate), Sub(up, down))
        weight == Mul(Num(Binomial(maturity, numberUps)),
                      Mul(Pow(p, numberUps), Pow(q, maturity - numberUps)))
        price == Mul(startPrice, Mul(Pow(Add(Num(1), up), numberUps),
                                     Pow(Add(Num(1), down), maturity - numberUps)))
        pay == IF isCall THEN Max0(Sub(price, strike)) ELSE Max0(Sub(strike, price))
    IN  Mul(weight, pay)

RECURSIVE ExpectedPayoff(_, _)
\* the sum of the weighted payoffs over numberUps = 0..last
ExpectedPayoff(last, isCall) ==
    IF last < 0 THEN Num(0)
    ELSE Add(ExpectedPayoff(last - 1, isCall), WeightedPayoff(last, isCall))

Discount == Pow(Add(Num(1), interestRate), maturity)

\* C7: CallOption.calcPrice and PutOption.calcPrice return the sum over numberUps from 0
\* to maturity-1 of BinomialPMF * payoff, divided by (1+rate)^maturity: the all-ups term
\* numberUps = maturity is not included; the call price for rate 0, up 1, down -0.5,
\* maturity 1, startPrice 1, strike 1 is 0.
PriceOmitsAllUps ==
    /\ Returned(callPrice) =>
          Mul(Val(callPrice), Discount) =
              Sub(ExpectedPayoff(maturity, TRUE), WeightedPayoff(maturity, TRUE))
    /\ Returned(putPrice) =>
          Mul(Val(putPrice), Discount) =
              Sub(ExpectedPayoff(maturity, FALSE), WeightedPayoff(maturity, FALSE))
    /\ (/\ Returned(callPrice) /\ interestRate = Num(0) /\ up = Num(1) /\ down = <<-1, 2>>
        /\ maturity = 1 /\ startPrice = Num(1) /\ strike = Num(1)) =>
          Val(callPrice) = Num(0)

\* the one-step call and put of the driver's market were priced; the all-ups scenario, in
\* the money for the call, is left out
OneStepCallPriced ==
    /\ Returned(callPrice) /\ Returned(putPrice)
    /\ interestRate = Num(0) /\ up = Num(1) /\ down = <<-1, 2>>
    /\ maturity = 1 /\ startPrice = Num(1) /\ strike = Num(1)
    /\ WeightedPayoff(maturity, TRUE) = <<1, 3>>

\* C10: when (1+up)*(1+down) = 1 the terminal price of the barrier sums,
\* startPrice*(1+up)^(2*numberUps - maturity), equals the terminal price of the plain
\* pricers, startPrice*(1+up)^numberUps*(1+down)^(maturity - numberUps), for every
\* numberUps in [0, maturity); for any other down the two differ.
TerminalPricesAgree ==
    (Returned(callPrice) /\ uiPrice # Idle) =>
        LET upReturn == Add(Num(1), up)
            downReturn == Add(Num(1), down)
        IN  \A numberUps \in 0..(maturity - 1) :
                (endPrice(upReturn, maturity, startPrice, numberUps)
                    = scenarioPrice(upReturn, downReturn, maturity, startPrice, numberUps))
                <=> (Mul(upReturn, downReturn) = Num(1))

\* both pricers ran on the driver's market, where (1+up)*(1+down) = 1, over several steps
TerminalPricesCompared ==
    /\ Returned(callPrice) /\ Returned(uiPrice)
    /\ up = Num(1) /\ down = <<-1, 2>> /\ maturity >= 3

----------------------------------------------------------------------------
(* Arbitrage relations the prices are documented to satisfy (Spec). *)

\* C1: put-call price parity: CallOption.calcPrice - PutOption.calcPrice, called with
\* identical arguments, equals startPrice - strike/(1+rate)^maturity.
PutCallPriceParity ==
    (Returned(callPrice) /\ Returned(putPrice)) =>
        Sub(Val(callPrice), Val(putPrice)) = Sub(startPrice, Div(strike, Discount))

RECURSIVE PathExpectation(_, _, _, _)
\* the expected up-and-in payoff over all up/down continuations of a path that is at time
\* t at price `price`, has probability `prob`, and has (hit) or has not touched the barrier
PathExpectation(t, price, hit, prob) ==
    IF t = maturity
    THEN IF hit THEN Mul(prob, Max0(Sub(price, strike))) ELSE Num(0)
    ELSE LET p == Div(Sub(interestRate, down), Sub(up, down))
             priceUp == Mul(price, Add(Num(1), up))
             priceDown == Mul(price, Add(Num(1), down))
         IN  Add(PathExpectation(t + 1, priceUp, hit \/ ~Less(priceUp, barriere),
                                 Mul(prob, p)),
                 PathExpectation(t + 1, priceDown, hit \/ ~Less(priceDown, barriere),
                                 Mul(prob, Sub(Num(1), p))))

\* the up-and-in call price by enumeration of all 2^maturity paths
PathEnumerationPrice ==
    Div(PathExpectation(0, startPrice, ~Less(startPrice, barriere), Num(1)), Discount)

\* C2: for rate 0, up 1, down -0.5, startPrice 1, strike 1, barriere 8 and maturity 4,
\* UICallOption.calcPrice equals the up-and-in call price obtained by enumerating all
\* 2^maturity paths.
BarrierPriceIsPathEnumeration ==
    (/\ uiPrice # Idle
     /\ interestRate = Num(0) /\ up = Num(1) /\ down = <<-1, 2>>
     /\ startPrice = Num(1) /\ strike = Num(1) /\ barriere = Num(8) /\ maturity = 4) =>
        uiPrice = Ret(PathEnumerationPrice)

\* C3: for down < rate < up, up = -down, barriere > strike and barriere =
\* startPrice*(1+up)^L for some integer L in [0, maturity), UICallOption.calcPrice is >= 0
\* and <= CallOption.calcPrice with the same arguments.
BarrierPriceBelowCallPrice ==
    (/\ Returned(callPrice) /\ uiPrice # Idle
     /\ up = Neg(down) /\ HasLevel(maturity)) =>
        /\ Returned(uiPrice)
        /\ Leq(Num(0), Val(uiPrice))
        /\ Leq(Val(uiPrice), Val(callPrice))

\* C3 as amended: under the same preconditions without up = -down, the up-and-in price
\* is >= 0; on a lattice with (1+up)*(1+down) = 1, on which the barrier sums and the plain
\* call use the same terminal prices, it is also <= CallOption.calcPrice.
BarrierPriceBelowCallOnLattice ==
    (Returned(callPrice) /\ uiPrice # Idle /\ HasLevel(maturity)) =>
        /\ Returned(uiPrice)
        /\ Leq(Num(0), Val(uiPrice))
        /\ Mul(Add(Num(1), up), Add(Num(1), down)) = Num(1) =>
              Leq(Val(uiPrice), Val(callPrice))

\* on the driver's lattice a barrier above the start price was priced strictly between 0
\* and the call price
BarrierPriceStrictlyBelowCall ==
    /\ Returned(callPrice) /\ Returned(uiPrice) /\ HasLevel(maturity)
    /\ Mul(Add(Num(1), up), Add(Num(1), down)) = Num(1)
    /\ Less(startPrice, barriere)
    /\ Less(Num(0), Val(uiPrice)) /\ Less(Val(uiPrice), Val(callPrice))

====
